---- MODULE Spec2Model ----
(***************************************************************************)
(* Model of client/fns.go: the ssh-like stdin relay (Cmd.SSHStdin), the   *)
(* bind-specification parser (parseBinds) and the fstab joiner            *)
(* (joinFSTab).  Strings are sequences of one-character strings.          *)
(***************************************************************************)
EXTENDS Integers, Sequences, FiniteSets, TLC

VARIABLES
    inp,        \* SSHStdin: bytes r.Read has delivered so far
    out,        \* SSHStdin: bytes w.Write has accepted so far
    newLine,    \* SSHStdin: local flag newLine
    tilde,      \* SSHStdin: local flag tilde
    closed,     \* SSHStdin: number of c.session.Close() calls
    reads,      \* SSHStdin: number of r.Read calls made
    writes,     \* SSHStdin: number of w.Write calls made
    pc,         \* SSHStdin: "loop" while in the for loop, "done" after return
    ioerr,      \* SSHStdin: "none", "read" or "write": the failure that ended the loop
    s,          \* parseBinds: argument s
    tmp,        \* parseBinds: argument tmp
    fstab,      \* parseBinds: returned string
    err,        \* parseBinds: returned error
    bpc,        \* parseBinds: "call" before the call, "done" after it returned
    frags,      \* joinFSTab: the fragments as the caller passed them
    tables,     \* joinFSTab: parameter tables (the slice is updated in place)
    joined,     \* joinFSTab: returned string
    rejoined,   \* joinFSTab: string returned by joinFSTab(joined)
    jpc         \* joinFSTab: "call" before the call, "done" after it returned,
                \* "again" after joinFSTab(joined) returned

vars == <<inp, out, newLine, tilde, closed, reads, writes, pc, ioerr,
          s, tmp, fstab, err, bpc, frags, tables, joined, rejoined, jpc>>

relayVars == <<inp, out, newLine, tilde, closed, reads, writes, pc, ioerr>>
bindVars == <<s, tmp, fstab, err, bpc>>
joinVars == <<frags, tables, joined, rejoined, jpc>>

\* ---------------------------------------------------------------- bounds
MaxIn == 4
MaxSpec == 5
MaxRoot == 2
MaxTables == 2
MaxFrag == 3

\* ------------------------------------------------------------- alphabets
NL == "\n"
CR == "\r"
Bytes == {NL, CR, "~", ".", "a", "b"}
SpecChars == {"a", "/", ".", "=", ":"}
RootChars == {"t", "/"}
FragChars == {"a", "b", NL}

Strs(A, n) == UNION {[1..k -> A] : k \in 0..n}

\* ===================================================== Cmd.SSHStdin
\* State after `var newLine, tilde bool`: both flags are false.
RelayInit ==
    /\ inp = <<>>
    /\ out = <<>>
    /\ newLine = FALSE
    /\ tilde = FALSE
    /\ closed = 0
    /\ reads = 0
    /\ writes = 0
    /\ pc = "loop"
    /\ ioerr = "none"


\* WriteFails with the error ignored: the loop goes on.
WriteFailsIgnored ==
    /\ pc' = pc
    /\ ioerr' = "write"
    /\ UNCHANGED <<closed>>

\* A w.Write that fails: nothing is appended and SSHStdin returns.
WriteFails ==
    /\ pc' = "done"
    /\ ioerr' = "write"
    /\ UNCHANGED <<closed>>

\* r.Read returns an error (end of stream included): break out of the loop.
ReadErr ==
    /\ pc = "loop"
    /\ UNCHANGED <<bindVars, joinVars>>
    /\ reads' = reads + 1
    /\ pc' = "done"
    /\ ioerr' = "read"
    /\ UNCHANGED <<inp, out, newLine, tilde, closed, writes>>

\* switch b[0] { default: ... }
Default(b) ==
    /\ pc = "loop"
    /\ UNCHANGED <<bindVars, joinVars>>
    /\ Len(inp) < MaxIn
    /\ b \notin {NL, CR, "~", "."}
    /\ reads' = reads + 1
    /\ inp' = Append(inp, b)
    /\ newLine' = FALSE
    /\ IF tilde
       THEN \/ /\ out' = out                      \* w.Write(t) fails
               /\ writes' = writes + 1
               /\ tilde' = tilde
               /\ WriteFails
            \/ /\ out' = Append(out, "~")         \* w.Write(t) ok, w.Write(b) fails
               /\ writes' = writes + 2
               /\ tilde' = FALSE
               /\ WriteFails
            \/ /\ out' = Append(Append(out, "~"), b)
               /\ writes' = writes + 2
               /\ tilde' = FALSE
               /\ UNCHANGED <<pc, ioerr, closed>>
       ELSE \/ /\ out' = out
               /\ writes' = writes + 1
               /\ tilde' = tilde
               /\ WriteFails
            \/ /\ out' = Append(out, b)
               /\ writes' = writes + 1
               /\ tilde' = tilde
               /\ UNCHANGED <<pc, ioerr, closed>>

\* case '\n', '\r':
LineTerm(b) ==
    /\ pc = "loop"
    /\ UNCHANGED <<bindVars, joinVars>>
    /\ Len(inp) < MaxIn
    /\ b \in {NL, CR}
    /\ reads' = reads + 1
    /\ inp' = Append(inp, b)
    /\ newLine' = TRUE
    /\ tilde' = tilde
    /\ writes' = writes + 1
    /\ \/ /\ out' = out
          /\ WriteFails
       \/ /\ out' = Append(out, b)
          /\ UNCHANGED <<pc, ioerr, closed>>

\* case '~':
Tilde ==
    /\ pc = "loop"
    /\ UNCHANGED <<bindVars, joinVars>>
    /\ Len(inp) < MaxIn
    /\ reads' = reads + 1
    /\ inp' = Append(inp, "~")
    /\ IF newLine
       THEN /\ newLine' = FALSE
            /\ tilde' = TRUE
            /\ UNCHANGED <<out, writes, pc, ioerr, closed>>
       ELSE /\ UNCHANGED <<newLine, tilde>>
            /\ writes' = writes + 1
            /\ \/ /\ out' = out
                  /\ WriteFails
               \/ /\ out' = Append(out, "~")
                  /\ UNCHANGED <<pc, ioerr, closed>>

\* Dot with the escape test made on newLine instead of tilde.
DotOnNewLine ==
    /\ pc = "loop"
    /\ UNCHANGED <<bindVars, joinVars>>
    /\ Len(inp) < MaxIn
    /\ reads' = reads + 1
    /\ inp' = Append(inp, ".")
    /\ UNCHANGED <<newLine, tilde>>
    /\ IF newLine
       THEN /\ closed' = closed + 1
            /\ pc' = "done"
            /\ UNCHANGED <<out, writes, ioerr>>
       ELSE /\ writes' = writes + 1
            /\ \/ /\ out' = out
                  /\ WriteFails
               \/ /\ out' = Append(out, ".")
                  /\ UNCHANGED <<pc, ioerr, closed>>

\* Dot without the return after c.session.Close(): the loop goes on.
DotNoReturn ==
    /\ pc = "loop"
    /\ UNCHANGED <<bindVars, joinVars>>
    /\ Len(inp) < MaxIn
    /\ reads' = reads + 1
    /\ inp' = Append(inp, ".")
    /\ UNCHANGED <<newLine, tilde>>
    /\ IF tilde
       THEN /\ closed' = closed + 1
            /\ UNCHANGED <<out, writes, pc, ioerr>>
       ELSE /\ writes' = writes + 1
            /\ \/ /\ out' = out
                  /\ WriteFails
               \/ /\ out' = Append(out, ".")
                  /\ UNCHANGED <<pc, ioerr, closed>>

\* case '.':
Dot ==
    /\ pc = "loop"
    /\ UNCHANGED <<bindVars, joinVars>>
    /\ Len(inp) < MaxIn
    /\ reads' = reads + 1
    /\ inp' = Append(inp, ".")
    /\ UNCHANGED <<newLine, tilde>>
    /\ IF tilde
       THEN /\ closed' = closed + 1
            /\ pc' = "done"
            /\ UNCHANGED <<out, writes, ioerr>>
       ELSE /\ writes' = writes + 1
            /\ \/ /\ out' = out
                  /\ WriteFails
               \/ /\ out' = Append(out, ".")
                  /\ UNCHANGED <<pc, ioerr, closed>>

\* ------------------------------------------------- SSHStdin properties
IsTerm(b) == b \in {NL, CR}
Last(q) == q[Len(q)]
HasTilde(q) == \E i \in 1..Len(q) : q[i] = "~"
\* some '~' of q directly follows a line terminator
HasLineStartTilde(q) == \E i \in 2..Len(q) : q[i] = "~" /\ IsTerm(q[i-1])

\* C1: for an input whose first two bytes are '~' then '.', the relay
\* closes the session and writes zero bytes to the output.
C1_EscapeAtStreamStart ==
    (Len(inp) >= 2 /\ inp[1] = "~" /\ inp[2] = "." /\ ioerr # "write")
        => (closed = 1 /\ out = <<>>)

\* C2: the session is closed only on a '.' whose preceding input byte is
\* '~', that '~' being the first byte of the stream or directly after a
\* line terminator.
C2_CloseOnlyOnLineStartEscape ==
    closed > 0 =>
        /\ Len(inp) >= 2
        /\ Last(inp) = "."
        /\ inp[Len(inp) - 1] = "~"
        /\ (Len(inp) = 2 \/ IsTerm(inp[Len(inp) - 2]))

\* C3: a '~' is withheld only directly after a line terminator; an input
\* in which no '~' directly follows a line terminator is forwarded
\* unchanged, with no escape pending and no close.
C3_TildeWithheldOnlyAfterTerminator ==
    (~HasLineStartTilde(inp) /\ ioerr # "write") =>
        (out = inp /\ ~tilde /\ closed = 0)

\* C4: in PendingEscape, reading any byte other than '.' writes the
\* withheld '~' and then that byte, and leaves no escape pending.
C4_PendingEscapeOtherByte ==
    [][(tilde /\ pc = "loop" /\ Len(inp') = Len(inp) + 1
          /\ Last(inp') # "." /\ ioerr' = "none")
       => (out' = Append(Append(out, "~"), Last(inp')) /\ ~tilde')]_vars

\* C5: when the bytes read contain no '~' and no write has failed, the
\* bytes written are exactly the bytes read and the session is not closed.
C5_NoTildeForwardedUnchanged ==
    (~HasTilde(inp) /\ ioerr # "write") => (out = inp /\ closed = 0)

C5_Witness ==
    /\ pc = "done"
    /\ ioerr = "read"
    /\ inp = <<"a", ".", NL, "b">>
    /\ out = inp
    /\ closed = 0

\* a is b with some of its elements left out, the rest in the same order
RECURSIVE IsSubseq(_, _)
IsSubseq(a, b) ==
    IF Len(a) = 0 THEN TRUE
    ELSE IF Len(b) = 0 THEN FALSE
    ELSE IF Head(a) = Head(b) THEN IsSubseq(Tail(a), Tail(b))
    ELSE IsSubseq(a, Tail(b))

\* q with its last '~' left out (q itself when it has none)
DropLastTilde(q) ==
    IF ~HasTilde(q) THEN q
    ELSE LET k == CHOOSE i \in 1..Len(q) : q[i] = "~" /\ \A j \in (i+1)..Len(q) : q[j] # "~"
         IN SubSeq(q, 1, k - 1) \o SubSeq(q, k + 1, Len(q))

\* C15: in every state, reading a line terminator writes that byte and
\* leaves the machine in AfterLineBreak with no escape pending.
C15_TerminatorToAfterLineBreak ==
    [][(pc = "loop" /\ Len(inp') = Len(inp) + 1 /\ IsTerm(Last(inp'))
          /\ ioerr' = "none")
       => (out' = Append(out, Last(inp')) /\ newLine' /\ ~tilde')]_vars

\* C16: reading '.' with an escape pending closes the session exactly once
\* and ends the relay: nothing is written for the '~' or the '.', and
\* after the close nothing more is read or written.
C16_EscapeClosesOnce ==
    /\ [][(tilde /\ pc = "loop" /\ inp' = Append(inp, "."))
          => (closed' = 1 /\ out' = out /\ writes' = writes /\ pc' = "done")]_vars
    /\ [](closed > 0 => (closed = 1 /\ pc = "done" /\ Last(inp) = "."))
    /\ [][pc = "done" => UNCHANGED relayVars]_vars

C16_Witness ==
    /\ pc = "done"
    /\ closed = 1
    /\ inp = <<NL, "~", ".">>
    /\ out = <<NL>>
    /\ reads = 3
    /\ writes = 1
    /\ ioerr = "none"

\* C17: the first failed read or failed write ends the relay at once: no
\* read or write follows it and the session is not closed; on every finite
\* input the relay terminates.
C17_IOFailureEndsRelay ==
    /\ [](ioerr # "none" => (pc = "done" /\ closed = 0))
    /\ [](reads = Len(inp) + (IF ioerr = "read" THEN 1 ELSE 0))
    /\ [](writes = Len(out) + (IF ioerr = "write" THEN 1 ELSE 0))
    /\ [][pc = "done" => UNCHANGED relayVars]_vars
    /\ <>(pc = "done")

C17_Witness ==
    /\ pc = "done"
    /\ ioerr = "write"
    /\ inp = <<NL, "~", "a">>
    /\ out = <<NL, "~">>
    /\ writes = 3
    /\ closed = 0

\* C18: at most one of newLine and tilde is true.
C18_FlagsExclusive ==
    ~(newLine /\ tilde)

\* C19: when the stream ends with a '~' withheld, the output is the input
\* without its final '~' and the session is not closed.
C19_TrailingTildeDropped ==
    (pc = "done" /\ ioerr = "read" /\ tilde)
        => (out = DropLastTilde(inp) /\ closed = 0)

\* C20: the bytes written so far are a subsequence of the bytes read so far.
C20_OutputSubsequenceOfInput ==
    IsSubseq(out, inp)

\* ======================================================= string helpers
HasChar(q, c) == \E i \in 1..Len(q) : q[i] = c
FirstIndex(q, c) == CHOOSE i \in 1..Len(q) : q[i] = c /\ \A j \in 1..(i-1) : q[j] # c

\* strings.Split(q, c): q cut at every occurrence of c.
RECURSIVE Split(_, _)
Split(q, c) ==
    IF ~HasChar(q, c)
    THEN <<q>>
    ELSE LET k == FirstIndex(q, c)
         IN <<SubSeq(q, 1, k - 1)>> \o Split(SubSeq(q, k + 1, Len(q)), c)

\* SplitN2 cutting at every occurrence of c, as strings.Split does.
SplitEvery(q, c) == Split(q, c)

\* strings.SplitN(q, c, 2): q cut at the first occurrence of c only.
SplitN2(q, c) ==
    IF ~HasChar(q, c)
    THEN <<q>>
    ELSE LET k == FirstIndex(q, c)
         IN <<SubSeq(q, 1, k - 1), SubSeq(q, k + 1, Len(q))>>

\* strings.Join(elems, sep)
RECURSIVE StrJoin(_, _)
StrJoin(elems, sep) ==
    IF Len(elems) = 0 THEN <<>>
    ELSE IF Len(elems) = 1 THEN elems[1]
    ELSE elems[1] \o sep \o StrJoin(Tail(elems), sep)

\* strings.TrimRight(q, "\n")
RECURSIVE TrimRight(_)
TrimRight(q) ==
    IF Len(q) > 0 /\ q[Len(q)] = NL THEN TrimRight(SubSeq(q, 1, Len(q) - 1)) ELSE q

\* filepath.Clean: the elements of p with empty and "." elements removed and
\* each ".." cancelling the element before it (dropped at the root).
RECURSIVE CleanElems(_, _, _)
CleanElems(elems, stack, rooted) ==
    IF Len(elems) = 0 THEN stack
    ELSE LET e == Head(elems)
             rest == Tail(elems)
         IN IF e = <<>> \/ e = <<".">>
            THEN CleanElems(rest, stack, rooted)
            ELSE IF e = <<".", ".">>
            THEN IF Len(stack) > 0 /\ stack[Len(stack)] # <<".", ".">>
                 THEN CleanElems(rest, SubSeq(stack, 1, Len(stack) - 1), rooted)
                 ELSE IF rooted
                 THEN CleanElems(rest, stack, rooted)
                 ELSE CleanElems(rest, Append(stack, e), rooted)
            ELSE CleanElems(rest, Append(stack, e), rooted)

Clean(p) ==
    LET rooted == Len(p) > 0 /\ p[1] = "/"
        body == StrJoin(CleanElems(Split(p, "/"), <<>>, rooted), <<"/">>)
        res == IF rooted THEN <<"/">> \o body ELSE body
    IN IF res = <<>> THEN <<".">> ELSE res

\* filepath.Join(tmp, "cpu", remote): the elements from the first non-empty
\* one on, joined with "/" and cleaned.
CpuDir == <<"c", "p", "u">>
FilepathJoin(root, remote) ==
    IF root # <<>>
    THEN Clean(root \o <<"/">> \o CpuDir \o <<"/">> \o remote)
    ELSE Clean(CpuDir \o <<"/">> \o remote)

\* ========================================================== parseBinds
Nil == [kind |-> "nil", index |-> 0]
ErrSyntax(kind, i) == [kind |-> kind, index |-> i]

\* " none defaults,bind 0 0\n"
LineTail ==
    <<" ", "n", "o", "n", "e", " ", "d", "e", "f", "a", "u", "l", "t", "s", ",",
      "b", "i", "n", "d", " ", "0", " ", "0", NL>>

\* bindLine with the two paths in each other's place.
bindLineSwapped(local, remote, root) ==
    FilepathJoin(root, local) \o <<" ">> \o remote \o LineTail

\* fmt.Sprintf("%s %s none defaults,bind 0 0\n", filepath.Join(tmp, "cpu", remote), local)
bindLine(local, remote, root) ==
    FilepathJoin(root, remote) \o <<" ">> \o local \o LineTail

\* bindStep reporting the element number counted from one.
bindStepOneBased(i, bind, acc, root) ==
    IF Len(bind) = 0
    THEN [fstab |-> <<>>, err |-> ErrSyntax("zero", i + 1)]
    ELSE LET c == SplitN2(bind, "=")
             local == c[1]
             remote == IF Len(c) = 1 THEN c[1] ELSE c[2]
         IN IF Len(local) = 0
            THEN [fstab |-> acc, err |-> ErrSyntax("local", i + 1)]
            ELSE IF Len(remote) = 0
            THEN [fstab |-> acc, err |-> ErrSyntax("remote", i + 1)]
            ELSE [fstab |-> acc \o bindLine(local, remote, root), err |-> Nil]

\* bindStep putting the new line in front of the lines gathered so far.
bindStepPrepend(i, bind, acc, root) ==
    IF Len(bind) = 0
    THEN [fstab |-> <<>>, err |-> ErrSyntax("zero", i)]
    ELSE LET c == SplitN2(bind, "=")
             local == c[1]
             remote == IF Len(c) = 1 THEN c[1] ELSE c[2]
         IN IF Len(local) = 0
            THEN [fstab |-> acc, err |-> ErrSyntax("local", i)]
            ELSE IF Len(remote) = 0
            THEN [fstab |-> acc, err |-> ErrSyntax("remote", i)]
            ELSE [fstab |-> bindLine(local, remote, root) \o acc, err |-> Nil]

\* One iteration of `for i, bind := range binds`: the (string, error)
\* returned from inside the loop, or the grown fstab with a nil error.
bindStep(i, bind, acc, root) ==
    IF Len(bind) = 0
    THEN [fstab |-> <<>>, err |-> ErrSyntax("zero", i)]
    ELSE LET c == SplitN2(bind, "=")
             local == c[1]
             remote == IF Len(c) = 1 THEN c[1] ELSE c[2]
         IN IF Len(c) = 0
            THEN [fstab |-> acc, err |-> ErrSyntax("empty", i)]
            ELSE IF Len(c) > 2
            THEN [fstab |-> acc, err |-> ErrSyntax("toomany", i)]
            ELSE IF Len(local) = 0
            THEN [fstab |-> acc, err |-> ErrSyntax("local", i)]
            ELSE IF Len(remote) = 0
            THEN [fstab |-> acc, err |-> ErrSyntax("remote", i)]
            ELSE [fstab |-> acc \o bindLine(local, remote, root), err |-> Nil]

RECURSIVE bindLoop(_, _, _, _)
bindLoop(binds, i, acc, root) ==
    IF i >= Len(binds)
    THEN [fstab |-> acc, err |-> Nil]
    ELSE LET r == bindStep(i, binds[i + 1], acc, root)
         IN IF r.err # Nil THEN r ELSE bindLoop(binds, i + 1, r.fstab, root)

\* parseBinds without the len(s) == 0 test.
parseBindsNoEmptyTest(str, root) ==
    bindLoop(Split(str, ":"), 0, <<>>, root)

parseBinds(str, root) ==
    IF Len(str) = 0
    THEN [fstab |-> <<>>, err |-> Nil]
    ELSE bindLoop(Split(str, ":"), 0, <<>>, root)

BindsIdle == s = <<>> /\ tmp = <<>> /\ fstab = <<>> /\ err = Nil /\ bpc = "call"

BindsInit ==
    /\ s \in Strs(SpecChars, MaxSpec)
    /\ tmp \in Strs(RootChars, MaxRoot)
    /\ fstab = <<>>
    /\ err = Nil
    /\ bpc = "call"

CallParseBinds ==
    /\ bpc = "call"
    /\ fstab' = parseBinds(s, tmp).fstab
    /\ err' = parseBinds(s, tmp).err
    /\ bpc' = "done"
    /\ UNCHANGED <<s, tmp, relayVars, joinVars>>

\* ------------------------------------------------ parseBinds properties
EntryZero(e) == Len(e) = 0
EntryLocalEmpty(e) == Len(e) > 0 /\ e[1] = "="
EntryRemoteEmpty(e) == Len(e) > 0 /\ HasChar(e, "=") /\ FirstIndex(e, "=") = Len(e)
EntryBad(e) == EntryZero(e) \/ EntryLocalEmpty(e) \/ EntryRemoteEmpty(e)
EntryKind(e) ==
    IF EntryZero(e) THEN "zero" ELSE IF EntryLocalEmpty(e) THEN "local" ELSE "remote"

\* s is "local=remote": one '=', no ':', both halves non-empty
IsPair(q) ==
    /\ ~HasChar(q, ":")
    /\ Cardinality({i \in 1..Len(q) : q[i] = "="}) = 1
    /\ q[1] # "="
    /\ q[Len(q)] # "="
PairLocal(q) == SubSeq(q, 1, FirstIndex(q, "=") - 1)
PairRemote(q) == SubSeq(q, FirstIndex(q, "=") + 1, Len(q))

\* every '/'-separated element of q is a name: not empty, "." or ".."
AllNames(q) ==
    \A i \in 1..Len(Split(q, "/")) :
        Split(q, "/")[i] \notin {<<>>, <<".">>, <<".", ".">>}
\* a relative path already in clean form
IsCleanRel(q) == Len(q) > 0 /\ AllNames(q)
\* a non-empty root already in clean form, absolute or relative
IsCleanRoot(q) ==
    /\ Len(q) > 0
    /\ IF q[1] = "/" THEN Len(q) > 1 /\ AllNames(Tail(q)) ELSE AllNames(q)

LiteralLine(local, remote, root) ==
    root \o <<"/">> \o CpuDir \o <<"/">> \o remote \o <<" ">> \o local \o LineTail
HasDoubleSlash(q) == \E i \in 2..Len(q) : q[i] = "/" /\ q[i-1] = "/"

\* C6: whenever parseBinds returns an error, the fragment it returns is empty.
C6_NoPartialFragment ==
    (bpc = "done" /\ err # Nil) => fstab = <<>>

\* C7: on a non-empty spec parseBinds fails exactly when some entry is
\* zero-length, has an empty local half or has an empty remote half, and
\* the error names the lowest such index and its kind.
C7_ErrorIffBadEntry ==
    (bpc = "done" /\ s # <<>>) =>
        LET es == Split(s, ":")
            bad == {i \in 1..Len(es) : EntryBad(es[i])}
        IN /\ (err # Nil) <=> (bad # {})
           /\ bad # {} =>
                LET m == CHOOSE i \in bad : \A j \in bad : i <= j
                IN err = [kind |-> EntryKind(es[m]), index |-> m - 1]

C7_Witness ==
    /\ bpc = "done"
    /\ s = <<"a", ":", ":", "a">>
    /\ err = [kind |-> "zero", index |-> 1]

C9_EmptySpec ==
    (bpc = "done" /\ s = <<>>) => (fstab = <<>> /\ err = Nil)

C9_Witness ==
    /\ bpc = "done"
    /\ s = <<>>
    /\ tmp = <<"/", "t">>
    /\ fstab = <<>>
    /\ err = Nil

\* the text of entry e before its first '=' (all of e when it has none)
EntryLocal(e) == IF HasChar(e, "=") THEN SubSeq(e, 1, FirstIndex(e, "=") - 1) ELSE e
\* the text of entry e after its first '=' (all of e when it has none)
EntryRemote(e) == IF HasChar(e, "=") THEN SubSeq(e, FirstIndex(e, "=") + 1, Len(e)) ELSE e
\* the line an accepted entry yields
EntryLine(e, root) ==
    FilepathJoin(root, EntryRemote(e)) \o <<" ">> \o EntryLocal(e) \o LineTail
RECURSIVE EntryLines(_, _)
EntryLines(es, root) ==
    IF Len(es) = 0 THEN <<>> ELSE EntryLine(Head(es), root) \o EntryLines(Tail(es), root)
CountChar(q, c) == Cardinality({i \in 1..Len(q) : q[i] = c})

\* C13: when all n entries of a non-empty spec are valid, parseBinds returns
\* n newline-terminated lines, the i-th one derived from the i-th entry.
C13_LinesInEntryOrder ==
    (/\ bpc = "done"
     /\ s # <<>>
     /\ \A i \in 1..Len(Split(s, ":")) : ~EntryBad(Split(s, ":")[i]))
        => /\ err = Nil
           /\ CountChar(fstab, NL) = Len(Split(s, ":"))
           /\ fstab[Len(fstab)] = NL
           /\ fstab = EntryLines(Split(s, ":"), tmp)

C13_Witness ==
    /\ bpc = "done"
    /\ s = <<"a", ":", "/", "=", ".">>
    /\ tmp = <<"t">>
    /\ err = Nil
    /\ fstab = <<"t", "/", "c", "p", "u", "/", "a", " ", "a">> \o LineTail
               \o <<"t", "/", "c", "p", "u", " ", "/">> \o LineTail

\* C14: an entry with two or more '=' is never rejected for having too many
\* elements; it is split at its first '=' only, so with a non-empty text
\* before that '=' it is accepted, local being that text and remote all the
\* text after it, later '=' included.
C14_SplitOnFirstEquals ==
    (bpc = "done" /\ ~HasChar(s, ":") /\ CountChar(s, "=") >= 2)
        => /\ err.kind # "toomany"
           /\ s[1] # "=" =>
                /\ err = Nil
                /\ HasChar(EntryRemote(s), "=")
                /\ fstab = FilepathJoin(tmp, EntryRemote(s)) \o <<" ">>
                              \o EntryLocal(s) \o LineTail

C14_Witness ==
    /\ bpc = "done"
    /\ s = <<"a", "=", "=", "a">>
    /\ tmp = <<"t">>
    /\ err = Nil
    /\ fstab = <<"t", "/", "c", "p", "u", "/", "=", "a", " ", "a">> \o LineTail

\* =========================================================== joinFSTab
\* the loop of joinFSTab: every non-empty table loses its trailing newlines
trimTables(tabs) ==
    [i \in 1..Len(tabs) |-> IF Len(tabs[i]) = 0 THEN tabs[i] ELSE TrimRight(tabs[i])]

joinFSTab(tabs) ==
    IF Len(tabs) = 0
    THEN <<>>
    ELSE StrJoin(trimTables(tabs), <<NL>>) \o <<NL>>

JoinIdle ==
    frags = <<>> /\ tables = <<>> /\ joined = <<>> /\ rejoined = <<>> /\ jpc = "call"

JoinInit ==
    /\ frags \in Strs(Strs(FragChars, MaxFrag), MaxTables)
    /\ tables = frags
    /\ joined = <<>>
    /\ rejoined = <<>>
    /\ jpc = "call"

CallJoinFSTab ==
    /\ jpc = "call"
    /\ joined' = joinFSTab(tables)
    /\ tables' = trimTables(tables)
    /\ jpc' = "done"
    /\ UNCHANGED <<frags, rejoined, relayVars, bindVars>>

\* joinFSTab called on its own result: joinFSTab(joined)
CallJoinAgain ==
    /\ jpc = "done"
    /\ rejoined' = joinFSTab(<<joined>>)
    /\ tables' = trimTables(<<joined>>)
    /\ jpc' = "again"
    /\ UNCHANGED <<frags, joined, relayVars, bindVars>>

\* ------------------------------------------------- joinFSTab properties
\* C10: joinFSTab returns the empty string when the fragments passed are
\* none at all or are all empty.
C10_JoinOfEmpties ==
    (jpc = "done" /\ \A i \in 1..Len(frags) : frags[i] = <<>>) => joined = <<>>

HasDoubleNL(q) == \E i \in 2..Len(q) : q[i] = NL /\ q[i-1] = NL
\* q has no blank line: it neither starts with a newline nor has two in a row
NoBlankLine(q) == ~HasDoubleNL(q) /\ (Len(q) > 0 => q[1] # NL)
EndsWithOneNL(q) ==
    /\ Len(q) > 0
    /\ q[Len(q)] = NL
    /\ (Len(q) > 1 => q[Len(q) - 1] # NL)
\* a fragment is well formed when it is empty, or is lines without a blank
\* line among them, followed by any number of newlines
WellFormedFrag(f) == f = <<>> \/ (TrimRight(f) # <<>> /\ NoBlankLine(TrimRight(f)))

\* C11: when at least one fragment is non-empty and no fragment has an
\* interior blank line, the result has no blank line and ends with exactly
\* one newline.
C11_JoinNoBlankLines ==
    (/\ jpc = "done"
     /\ \E i \in 1..Len(frags) : frags[i] # <<>>
     /\ \A i \in 1..Len(frags) : WellFormedFrag(frags[i]))
        => (NoBlankLine(joined) /\ EndsWithOneNL(joined))

\* C12: joining the result of a join changes nothing:
\* joinFSTab(joinFSTab(F)) = joinFSTab(F).
C12_JoinIdempotent ==
    jpc = "again" => rejoined = joined


\* ====================================================== specifications
Init == RelayInit /\ BindsIdle /\ JoinIdle
Next ==
    \/ ReadErr
    \/ \E b \in Bytes : Default(b)
    \/ \E b \in Bytes : LineTerm(b)
    \/ Tilde
    \/ Dot
Spec == Init /\ [][Next]_vars
\* every r.Read returns, with a byte or with an error
SpecLive == Spec /\ WF_vars(Next)

InitBinds == RelayInit /\ BindsInit /\ JoinIdle
NextBinds == CallParseBinds
SpecBinds == InitBinds /\ [][NextBinds]_vars

InitJoin == RelayInit /\ BindsIdle /\ JoinInit
NextJoin ==
    \/ CallJoinFSTab
    \/ CallJoinAgain
SpecJoin == InitJoin /\ [][NextJoin]_vars

====

